---- MODULE Spec2Model ----
(***************************************************************************)
(* Model of the hanzo crate publishing scripts:                            *)
(*   publish-hanzo-improved.py   ("improved":  toml parse, try/finally)    *)
(*   publish-hanzo-automated.py  ("automated": regex rewrite, registry)    *)
(*   publish-all-hanzo-crates.py ("all":       in-place fixes, prompt)     *)
(*   fix-all-cargo-tomls.py      ("fixall":    regex rewrite, no publish)  *)
(*                                                                         *)
(* A crate or dependency name is a record [words, sep]: the words of the   *)
(* name and the separator that joins them ("-" or "_", "" for one word),   *)
(* so that str.replace('-', '_') and str.startswith('hanzo_') are computed *)
(* rather than assumed.                                                    *)
(***************************************************************************)
EXTENDS Integers, Sequences, FiniteSets, TLC

\* ------------------------------------------------------------------ names

W1(w) == [words |-> <<w>>, sep |-> ""]
Hy(ws) == [words |-> ws, sep |-> "-"]
Us(ws) == [words |-> ws, sep |-> "_"]

\* name.replace('-', '_')
ReplaceHyphen(n) == [n EXCEPT !.sep = IF @ = "-" THEN "_" ELSE @]

\* name.startswith('hanzo_')
StartsWithHanzoUnderscore(n) ==
    /\ Len(n.words) >= 2
    /\ n.words[1] = "hanzo"
    /\ n.sep = "_"

\* ------------------------------------------------------------------ tables

\* publish-hanzo-improved.py
WORKSPACE_DEFAULTS ==
    [ version     |-> "1.1.10",
      edition     |-> "2021",
      authors     |-> "Hanzo AI Inc",
      license     |-> "MIT",
      repository  |-> "https://github.com/hanzoai/hanzo-node",
      homepage    |-> "https://hanzo.ai",
      description |-> "Hanzo AI component" ]

\* publish-hanzo-improved.py
DEPENDENCY_VERSIONS ==
    W1("tokio") :> "1.36" @@ W1("serde") :> "1.0.219"
    @@ Us(<<"serde", "json">>) :> "1.0.117" @@ W1("chrono") :> "0.4"
    @@ W1("reqwest") :> "0.11.27" @@ W1("log") :> "0.4.20"
    @@ Hy(<<"async", "trait">>) :> "0.1.81" @@ W1("futures") :> "0.3.30"
    @@ W1("anyhow") :> "1.0.86" @@ W1("dashmap") :> "6.0"
    @@ Hy(<<"ed25519", "dalek">>) :> "2.1.1"
    @@ Hy(<<"x25519", "dalek">>) :> "2.0.1" @@ W1("base64") :> "0.22.0"
    @@ W1("rusqlite") :> "0.31.0" @@ W1("dirs") :> "5.0"
    @@ W1("clap") :> "4.5.4" @@ W1("home") :> "0.5.5"
    @@ W1("keyphrases") :> "0.3.2" @@ W1("utoipa") :> "4.2"
    @@ W1("nalgebra") :> "0.32" @@ W1("tracing") :> "0.1.40"
    @@ Us(<<"lazy", "static">>) :> "1.4.0" @@ Us(<<"once", "cell">>) :> "1.19"
    @@ W1("regex") :> "1" @@ W1("rmcp") :> "0.6" @@ W1("bincode") :> "1.3.3"
    @@ W1("uuid") :> "1.8.0" @@ W1("csv") :> "1.3"

\* publish-hanzo-automated.py
WORKSPACE_DEPS ==
    W1("tokio") :> "1.36" @@ W1("serde") :> "1.0.219"
    @@ Us(<<"serde", "json">>) :> "1.0.117" @@ W1("chrono") :> "0.4"
    @@ W1("reqwest") :> "0.11.27" @@ W1("log") :> "0.4.20"
    @@ Hy(<<"async", "trait">>) :> "0.1.81" @@ W1("futures") :> "0.3.30"
    @@ W1("anyhow") :> "1.0.86" @@ W1("dashmap") :> "6.0"
    @@ Hy(<<"ed25519", "dalek">>) :> "2.1.1"
    @@ Hy(<<"x25519", "dalek">>) :> "2.0.1" @@ W1("base64") :> "0.22.0"
    @@ W1("rusqlite") :> "0.31.0" @@ W1("dirs") :> "5.0"
    @@ W1("clap") :> "4.5.4" @@ W1("home") :> "0.5.5"
    @@ W1("utoipa") :> "4.2" @@ W1("tracing") :> "0.1.40"
    @@ Us(<<"lazy", "static">>) :> "1.4.0" @@ Us(<<"once", "cell">>) :> "1.19"
    @@ W1("regex") :> "1" @@ W1("tempfile") :> "3.8"

\* publish-hanzo-automated.py
CRYPTO_FEATURES ==
    Hy(<<"ed25519", "dalek">>) :> <<"rand_core">>
    @@ Hy(<<"x25519", "dalek">>) :> <<"static_secrets">>
    @@ W1("chrono") :> <<"serde">>
    @@ W1("tokio") :> <<"rt", "rt-multi-thread", "macros", "fs", "io-util",
                        "net", "sync", "time">>
    @@ W1("serde") :> <<"derive">>

\* publish-hanzo-automated.py: the registry as seeded at import time
PUBLISHED_HANZO ==
    Us(<<"hanzo", "message", "primitives">>) :> "1.1.10"
    @@ Us(<<"hanzo", "non", "rust", "code">>) :> "1.1.10"
    @@ Us(<<"hanzo", "crypto", "identities">>) :> "1.1.10"
    @@ Us(<<"hanzo", "tools", "runner">>) :> "1.0.3"

\* fix-all-cargo-tomls.py
DEPS ==
    W1("tokio") :> "1.36" @@ W1("serde") :> "1.0.219"
    @@ Us(<<"serde", "json">>) :> "1.0.117" @@ W1("chrono") :> "0.4"
    @@ W1("reqwest") :> "0.11.27" @@ W1("log") :> "0.4.20"
    @@ Hy(<<"async", "trait">>) :> "0.1.81" @@ W1("futures") :> "0.3.30"
    @@ W1("anyhow") :> "1.0.86" @@ W1("dashmap") :> "6.0"
    @@ Hy(<<"ed25519", "dalek">>) :> "2.1.1"
    @@ Hy(<<"x25519", "dalek">>) :> "2.0.1" @@ W1("base64") :> "0.22.0"
    @@ W1("rusqlite") :> "0.31.0" @@ W1("dirs") :> "5.0"
    @@ W1("clap") :> "4.5.4" @@ W1("home") :> "0.5.5"
    @@ W1("utoipa") :> "4.2" @@ W1("tracing") :> "0.1.40"
    @@ Us(<<"lazy", "static">>) :> "1.4.0" @@ Us(<<"once", "cell">>) :> "1.19"
    @@ W1("regex") :> "1" @@ W1("tempfile") :> "3.8"
    @@ W1("bincode") :> "1.3.3" @@ W1("sha2") :> "0.10"
    @@ W1("blake3") :> "1.5" @@ W1("thiserror") :> "2.0"
    @@ W1("hex") :> "0.4.3" @@ Hy(<<"tokio", "test">>) :> "0.4"
    @@ W1("criterion") :> "0.5"

\* fix-all-cargo-tomls.py
FEATURES ==
    Hy(<<"ed25519", "dalek">>) :> <<"rand_core">>
    @@ Hy(<<"x25519", "dalek">>) :> <<"static_secrets">>
    @@ W1("chrono") :> <<"serde">>
    @@ W1("serde") :> <<"derive">>
    @@ W1("tokio") :> <<"rt", "rt-multi-thread", "macros", "fs", "io-util",
                        "net", "sync", "time">>
    @@ W1("reqwest") :> <<"json">>
    @@ W1("utoipa") :> <<"yaml">>
    @@ Hy(<<"tracing", "subscriber">>) :> <<"env-filter">>

\* fix-all-cargo-tomls.py: a static registry, never updated
FIXALL_PUBLISHED_HANZO ==
    Us(<<"hanzo", "message", "primitives">>) :> "1.1.10"
    @@ Us(<<"hanzo", "non", "rust", "code">>) :> "1.1.10"
    @@ Us(<<"hanzo", "crypto", "identities">>) :> "1.1.10"
    @@ Us(<<"hanzo", "pqc">>) :> "1.1.10"
    @@ Us(<<"hanzo", "did">>) :> "1.1.10"
    @@ Us(<<"hanzo", "mcp">>) :> "1.1.10"
    @@ Us(<<"hanzo", "tools", "primitives">>) :> "1.1.10"
    @@ Us(<<"hanzo", "tools", "runner">>) :> "1.0.3"

\* --------------------------------------------------------------- manifests

(***************************************************************************)
(* A dependency entry.  kind "str" is  name = "ver" ; kind "table" is a    *)
(* table, written inline ( name = { workspace = true, ... } ) or, with     *)
(* nested = TRUE, as its own [section.name] header followed by key lines.  *)
(* ver = NoVer is a table without a version key.  feats is the features    *)
(* list in file order (a Python list), meaningful when hasFeat.            *)
(***************************************************************************)
NoVer == "<no version>"

StrDep(v) ==
    [kind |-> "str", nested |-> FALSE, ws |-> FALSE, ver |-> v,
     hasFeat |-> FALSE, feats |-> <<>>]

TableDep(v, fs) ==
    [kind |-> "table", nested |-> FALSE, ws |-> FALSE, ver |-> v,
     hasFeat |-> TRUE, feats |-> fs]

VersionOnlyDep(v) ==
    [kind |-> "table", nested |-> FALSE, ws |-> FALSE, ver |-> v,
     hasFeat |-> FALSE, feats |-> <<>>]

InheritedDep(hasF, fs, nest) ==
    [kind |-> "table", nested |-> nest, ws |-> TRUE, ver |-> NoVer,
     hasFeat |-> hasF, feats |-> fs]

Sections == {"dependencies", "dev-dependencies", "build-dependencies"}

\* A package metadata field: absent, { workspace = true }, or a value: a
\* sequence of words, each with the separator written before it and
\* whether str.title() has been applied to it.
Raw(w) == [w |-> w, title |-> FALSE, pre |-> ""]
Absent == [st |-> "absent", v |-> <<>>]
Inherited == [st |-> "inherited", v |-> <<>>]
Explicit(ws) == [st |-> "explicit", v |-> ws]
Value(s) == Explicit(<<Raw(s)>>)

MetaFields ==
    {"version", "edition", "authors", "license", "repository", "homepage",
     "description"}

(***************************************************************************)
(* The content of a Cargo.toml.  text is "toml" for well-formed content,   *)
(* "malformed" for content a TOML parser rejects, "truncated" for what an  *)
(* interrupted write leaves.  deps maps <<section, name>> to an entry;     *)
(* dotted holds top-level tables whose key itself is "section.name".       *)
(***************************************************************************)
Manifest(nm, pkg, hasWs, ds, dt) ==
    [text |-> "toml", name |-> nm, package |-> pkg, workspace |-> hasWs,
     deps |-> ds, dotted |-> dt]

EmptyMap == [k \in {} |-> StrDep("")]

NoPackage == [f \in MetaFields |-> Absent]

MalformedContent ==
    [text |-> "malformed", name |-> W1(""), package |-> NoPackage,
     workspace |-> FALSE, deps |-> EmptyMap, dotted |-> EmptyMap]

TruncatedContent ==
    [text |-> "truncated", name |-> W1(""), package |-> NoPackage,
     workspace |-> FALSE, deps |-> EmptyMap, dotted |-> EmptyMap]

Has(seq, x) == \E i \in 1..Len(seq) : seq[i] = x

\* Mutant of AppendIfMissing: the feature is appended without the test.
AppendAlways(seq, x) == Append(seq, x)

\* if x not in features: features.append(x)
AppendIfMissing(seq, x) == IF Has(seq, x) THEN seq ELSE Append(seq, x)

\* ------------------------------------ publish-hanzo-improved.py: resolver

\* The version lookup shared by fix_dependencies_table_syntax and
\* fix_inline_tables: the table, then the hanzo_ prefix, then "1.0".
ImprovedVersion(dep_name) ==
    IF dep_name \in DOMAIN DEPENDENCY_VERSIONS
    THEN DEPENDENCY_VERSIONS[dep_name]
    ELSE IF StartsWithHanzoUnderscore(dep_name)
         THEN WORKSPACE_DEFAULTS.version
         ELSE "1.0"

\* toml.loads: an inline table and a [section.name] table parse to the
\* same dict.
TomlLoads(m) ==
    [m EXCEPT !.deps = [k \in DOMAIN m.deps |->
                           [m.deps[k] EXCEPT !.nested = FALSE]]]

\* toml.dump: a dict-valued dependency is written as its own
\* [section.name] table.
TomlDump(m) ==
    [m EXCEPT !.deps = [k \in DOMAIN m.deps |->
                           [m.deps[k] EXCEPT !.nested = (@ \/ m.deps[k].kind = "table")]]]

\* Mutant of ImprovedMetadata: every field is set to its default, whatever
\* it held.
ImprovedMetadataOverwrites(package) ==
    [f \in MetaFields |-> Value(WORKSPACE_DEFAULTS[f])]

\* fix_workspace_inheritance, "Fix package metadata" and "Ensure
\* description exists".  An empty description string is falsy.
ImprovedMetadata(package) ==
    [f \in MetaFields |->
        IF f = "description"
        THEN IF package[f].st = "absent"
                \/ (package[f].st = "explicit" /\ package[f].v = <<Raw("")>>)
             THEN Value(WORKSPACE_DEFAULTS.description)
             ELSE package[f]
        ELSE IF package[f].st = "inherited"
             THEN Value(WORKSPACE_DEFAULTS[f])
             ELSE package[f]]

\* fix_dependencies_table_syntax, the value stored for one dotted key.
FoldedValue(dep_name, dep_value) ==
    IF dep_value.kind = "table" /\ dep_value.ws
    THEN LET version == ImprovedVersion(dep_name)
         IN  IF dep_name = W1("chrono") THEN TableDep(version, <<"serde">>)
             ELSE IF dep_name = W1("reqwest") THEN TableDep(version, <<"json">>)
             ELSE IF dep_name = W1("nalgebra")
                  THEN TableDep(version, <<"serde-serialize">>)
             ELSE VersionOnlyDep(version)
    ELSE dep_value

\* key.startswith("dependencies.") or key.startswith("dev-dependencies.")
Foldable(key) == key[1] \in {"dependencies", "dev-dependencies"}

fix_dependencies_table_syntax(data) ==
    LET moved == {k \in DOMAIN data.dotted : Foldable(k)}
    IN  [data EXCEPT
            !.deps = [k \in DOMAIN data.deps \cup moved |->
                        IF k \in moved
                        THEN FoldedValue(k[2], data.dotted[k])
                        ELSE data.deps[k]],
            !.dotted = [k \in DOMAIN data.dotted \ moved |-> data.dotted[k]]]

\* fix_inline_tables, the value stored for one entry of a section.
InlineValue(dep_name, dep_value) ==
    IF dep_value.kind = "table"
    THEN IF dep_value.ws
         THEN LET version == ImprovedVersion(dep_name)
                  kept == IF dep_value.hasFeat THEN dep_value.feats ELSE <<>>
                  features ==
                      IF dep_name = W1("chrono")
                      THEN AppendIfMissing(kept, "serde")
                      ELSE IF dep_name = W1("reqwest")
                      THEN AppendIfMissing(kept, "json")
                      ELSE IF dep_name = W1("nalgebra")
                      THEN AppendIfMissing(kept, "serde-serialize")
                      ELSE kept
              IN  IF features # <<>>
                  THEN TableDep(version, features)
                  ELSE VersionOnlyDep(version)
         ELSE dep_value
    ELSE IF dep_value.ver = ""
         THEN IF dep_name \in DOMAIN DEPENDENCY_VERSIONS
              THEN StrDep(DEPENDENCY_VERSIONS[dep_name])
              ELSE StrDep("1.0")
         ELSE dep_value

fix_inline_tables(data) ==
    [data EXCEPT !.deps = [k \in DOMAIN data.deps |->
                              InlineValue(k[2], data.deps[k])]]

\* "Fix reqwest to have json feature": all three sections; a table
\* without a features key is left alone.
FixReqwest(section, dep_name, req) ==
    IF dep_name # W1("reqwest") THEN req
    ELSE IF req.kind = "str"
         THEN TableDep(IF req.ver # "" THEN req.ver ELSE "0.11.27", <<"json">>)
         ELSE IF req.hasFeat
              THEN [req EXCEPT !.feats = AppendIfMissing(@, "json")]
              ELSE req

\* "Fix chrono to have serde feature" and "Fix nalgebra ...": only the
\* dependencies and dev-dependencies sections.
FixNamedFeature(section, dep_name, dep, target, fallback, feature) ==
    IF dep_name # target \/ section \notin {"dependencies", "dev-dependencies"}
    THEN dep
    ELSE IF dep.kind = "str"
         THEN TableDep(IF dep.ver # "" THEN dep.ver ELSE fallback, <<feature>>)
         ELSE IF ~dep.hasFeat
              THEN [dep EXCEPT !.hasFeat = TRUE, !.feats = <<feature>>]
              ELSE [dep EXCEPT !.feats = AppendIfMissing(@, feature)]

FixFeatures(data) ==
    [data EXCEPT !.deps = [k \in DOMAIN data.deps |->
        FixNamedFeature(k[1], k[2],
            FixNamedFeature(k[1], k[2],
                FixReqwest(k[1], k[2], data.deps[k]),
                W1("chrono"), "0.4", "serde"),
            W1("nalgebra"), "0.32", "serde-serialize")]]

\* fix_workspace_inheritance on parsed data (toml.loads succeeded).
ImprovedFix(data) ==
    FixFeatures(fix_inline_tables(fix_dependencies_table_syntax(
        [data EXCEPT !.package = ImprovedMetadata(@), !.workspace = TRUE])))

\* The content fix_workspace_inheritance writes for content m.
fix_workspace_inheritance(m) == TomlDump(ImprovedFix(TomlLoads(m)))

\* ----------------------------------- publish-hanzo-automated.py: resolver

\* The words of a name after  .replace(prefix_word + sep, '')  and
\* .replace(sep, ' ') : the namespace word goes only when the name is
\* written with the separator the script expects, and only then do the
\* remaining words become space-separated.
StripNamespace(n, sep) ==
    IF n.sep = sep
    THEN LET kept == SelectSeq([i \in 1..Len(n.words) |->
                                   [w |-> n.words[i], i |-> i]],
                               LAMBDA x : ~(x.w = "hanzo" /\ x.i < Len(n.words)))
         IN  [i \in 1..Len(kept) |->
                 [w |-> kept[i].w, title |-> TRUE,
                  pre |-> IF i = 1 THEN "" ELSE " "]]
    ELSE [i \in 1..Len(n.words) |->
             [w |-> n.words[i], title |-> TRUE,
              pre |-> IF i = 1 THEN "" ELSE n.sep]]

\* f"{...title()} for Hanzo AI platform"
SynthDescription(n, sep) ==
    Explicit(Append(StripNamespace(n, sep),
                    [w |-> "for Hanzo AI platform", title |-> FALSE, pre |-> " "]))

\* The three re.sub calls on version, edition and authors.
RegexMetadata(package) ==
    [f \in MetaFields |->
        IF f \in {"version", "edition", "authors"} /\ package[f].st = "inherited"
        THEN IF f = "version" THEN Value("1.1.10")
             ELSE IF f = "edition" THEN Value("2021")
             ELSE Value("Hanzo AI Inc")
        ELSE package[f]]

\* "Add missing metadata if not present": a field whose key does not occur
\* in the content is inserted after the authors line, when there is one.
AutomatedMissing(package, crate_name) ==
    LET p1 == RegexMetadata(package)
        anchor == p1["authors"].st # "absent"
    IN  [f \in MetaFields |->
            IF f \in {"license", "repository", "homepage", "description"}
               /\ p1[f].st = "absent" /\ anchor
            THEN IF f = "description" THEN SynthDescription(crate_name, "-")
                 ELSE Value(WORKSPACE_DEFAULTS[f])
            ELSE p1[f]]

\* The pattern  name = { workspace = true ... }  matches an inline table
\* whose first key is workspace = true; a [section.name] table has no
\* braces and is not matched.
MatchesWorkspaceDep(e) == e.kind = "table" /\ e.ws /\ ~e.nested

\* replace_dep: registry, then WORKSPACE_DEPS, else the match itself.
replace_dep(dep_name, e, registry) ==
    LET hanzo_key == ReplaceHyphen(dep_name)
        out(version) ==
            IF dep_name \in DOMAIN CRYPTO_FEATURES
            THEN TableDep(version, CRYPTO_FEATURES[dep_name])
            ELSE StrDep(version)
    IN  IF hanzo_key \in DOMAIN registry THEN out(registry[hanzo_key])
        ELSE IF dep_name \in DOMAIN WORKSPACE_DEPS
             THEN out(WORKSPACE_DEPS[dep_name])
             ELSE e

\* create_fixed_cargo_toml: the content computed from content m.
create_fixed_cargo_toml(m, crate_name, registry) ==
    IF m.text # "toml" THEN m
    ELSE [m EXCEPT
            !.package = AutomatedMissing(@, crate_name),
            !.deps = [k \in DOMAIN m.deps |->
                        IF MatchesWorkspaceDep(m.deps[k])
                        THEN replace_dep(k[2], m.deps[k], registry)
                        ELSE m.deps[k]]]

\* -------------------------------------- fix-all-cargo-tomls.py: resolver

\* The chain of insertions: license after the authors line, repository
\* after a license line, homepage after a repository line, description
\* after a homepage line.
FixAllMissing(package, name) ==
    LET p1 == RegexMetadata(package)
        lic == IF p1["license"].st = "absent" /\ p1["authors"].st # "absent"
               THEN Value("MIT") ELSE p1["license"]
        rep == IF p1["repository"].st = "absent" /\ lic.st # "absent"
               THEN Value("https://github.com/hanzoai/hanzo-node")
               ELSE p1["repository"]
        hom == IF p1["homepage"].st = "absent" /\ rep.st # "absent"
               THEN Value("https://hanzo.ai") ELSE p1["homepage"]
        des == IF p1["description"].st = "absent" /\ hom.st # "absent"
               THEN SynthDescription(name, "_") ELSE p1["description"]
    IN  [f \in MetaFields |->
            IF f = "license" THEN lic
            ELSE IF f = "repository" THEN rep
            ELSE IF f = "homepage" THEN hom
            ELSE IF f = "description" THEN des
            ELSE p1[f]]

replace_workspace_dep(dep_name, e) ==
    LET hanzo_key == ReplaceHyphen(dep_name)
        out(version) ==
            IF dep_name \in DOMAIN FEATURES
            THEN TableDep(version, FEATURES[dep_name])
            ELSE StrDep(version)
    IN  IF hanzo_key \in DOMAIN FIXALL_PUBLISHED_HANZO
        THEN out(FIXALL_PUBLISHED_HANZO[hanzo_key])
        ELSE IF dep_name \in DOMAIN DEPS THEN out(DEPS[dep_name])
             ELSE e

\* re.sub(r'workspace\s*=\s*true', '', content): every marker that is left
\* is deleted, whatever notation it is written in.
StripMarker(e) == [e EXCEPT !.ws = FALSE]

StripField(fv) == IF fv.st = "inherited" THEN [st |-> "emptied", v |-> <<>>] ELSE fv

\* fix_cargo_toml of fix-all-cargo-tomls.py: the content it leaves.
fixall_fix_cargo_toml(m) ==
    IF m.text # "toml" THEN m
    ELSE LET pkg == FixAllMissing(m.package, m.name)
         IN  [m EXCEPT
                !.package = [f \in MetaFields |-> StripField(pkg[f])],
                !.deps = [k \in DOMAIN m.deps |->
                            StripMarker(IF MatchesWorkspaceDep(m.deps[k])
                                        THEN replace_workspace_dep(k[2], m.deps[k])
                                        ELSE m.deps[k])],
                !.dotted = [k \in DOMAIN m.dotted |-> StripMarker(m.dotted[k])]]

\* ------------------------------------ publish-all-hanzo-crates.py: fixes

\* The four str.replace calls, on one  name = "version"  line.
AllFixEntry(dep_name, e) ==
    IF e.kind # "str" THEN e
    ELSE IF dep_name = W1("thiserror") /\ e.ver = "1.0.86" THEN StrDep("2.0")
    ELSE IF dep_name = W1("blake3") /\ e.ver = "1.8.2" THEN StrDep("1.5")
    ELSE IF dep_name = Hy(<<"ed25519", "dalek">>) /\ e.ver = "2.1.1"
         THEN TableDep("2.1.1", <<"rand_core">>)
    ELSE IF dep_name = Hy(<<"x25519", "dalek">>) /\ e.ver = "2.0.1"
         THEN TableDep("2.0.1", <<"static_secrets">>)
    ELSE e

\* fix_cargo_toml of publish-all-hanzo-crates.py: the content it leaves.
all_fix_cargo_toml(m) ==
    IF m.text # "toml" THEN m
    ELSE [m EXCEPT !.deps = [k \in DOMAIN m.deps |->
                                AllFixEntry(k[2], m.deps[k])]]

\* ------------------------------------------------------- the publish order

\* HANZO_CRATES of publish-hanzo-improved.py
IMPROVED_CRATES ==
    << Hy(<<"hanzo", "message", "primitives">>),
       Hy(<<"hanzo", "crypto", "identities">>),
       Hy(<<"hanzo", "non", "rust", "code">>), Hy(<<"hanzo", "pqc">>),
       Hy(<<"hanzo", "embedding">>), Hy(<<"hanzo", "sqlite">>),
       Hy(<<"hanzo", "db">>), Hy(<<"hanzo", "did">>),
       Hy(<<"hanzo", "config">>), Hy(<<"hanzo", "fs">>),
       Hy(<<"hanzo", "job", "queue", "manager">>),
       Hy(<<"hanzo", "libp2p", "relayer">>), Hy(<<"hanzo", "mcp">>),
       Hy(<<"hanzo", "kbs">>), Hy(<<"hanzo", "model", "discovery">>),
       Hy(<<"hanzo", "hmm">>), Hy(<<"hanzo", "tools", "primitives">>),
       Hy(<<"hanzo", "llm">>), Hy(<<"hanzo", "sheet">>),
       Hy(<<"hanzo", "wasm", "runtime">>), Hy(<<"hanzo", "mining">>),
       Hy(<<"hanzo", "http", "api">>) >>

\* HANZO_CRATES of publish-hanzo-automated.py
AUTOMATED_CRATES ==
    << Hy(<<"hanzo", "pqc">>), Hy(<<"hanzo", "embedding">>),
       Hy(<<"hanzo", "sqlite">>), Hy(<<"hanzo", "db">>),
       Hy(<<"hanzo", "did">>), Hy(<<"hanzo", "config">>),
       Hy(<<"hanzo", "fs">>), Hy(<<"hanzo", "job", "queue", "manager">>),
       Hy(<<"hanzo", "libp2p", "relayer">>), Hy(<<"hanzo", "mcp">>),
       Hy(<<"hanzo", "kbs">>), Hy(<<"hanzo", "model", "discovery">>),
       Hy(<<"hanzo", "hmm">>), Hy(<<"hanzo", "tools", "primitives">>),
       Hy(<<"hanzo", "llm">>), Hy(<<"hanzo", "sheet">>),
       Hy(<<"hanzo", "wasm", "runtime">>), Hy(<<"hanzo", "mining">>),
       Hy(<<"hanzo", "http", "api">>) >>

\* HANZO_CRATES of publish-all-hanzo-crates.py (the same list as improved)
ALL_CRATES == IMPROVED_CRATES

\* The model runs the first NumCrates entries of a script's order.
NumCrates == 3

Crates == 1..NumCrates

Scripts == {"improved", "automated", "all"}

HANZO_CRATES(s) ==
    SubSeq(IF s = "improved" THEN IMPROVED_CRATES
           ELSE IF s = "automated" THEN AUTOMATED_CRATES
           ELSE ALL_CRATES, 1, NumCrates)

\* The scripts that copy the manifest aside before rewriting it.
BacksUp(s) == s \in {"improved", "automated"}

\* --------------------------------------------------- the publish command

\* What cargo publish hands back: exit status and combined output, the
\* output as a sequence of characters.
CargoOutputs ==
    { [code |-> 0, text |-> <<"U", "p", "l", "o", "a", "d", "i", "n", "g">>],
      [code |-> 101, text |-> <<"e", "r", "r", "o", "r", ":", " ", "i", "s", " ", "a", "l", "r", "e", "a", "d", "y", " ", "u", "p", "l", "o", "a", "d", "e", "d">>],
      [code |-> 101, text |-> <<"e", "r", "r", "o", "r", ":", " ", "A", "l", "r", "e", "a", "d", "y", " ", "U", "p", "l", "o", "a", "d", "e", "d">>],
      [code |-> 101, text |-> <<"e", "r", "r", "o", "r", ":", " ", "f", "a", "i", "l", "e", "d", " ", "t", "o", " ", "v", "e", "r", "i", "f", "y">>] }

NoOutput == [crate |-> 0, code |-> -1, text |-> <<>>]

\* The output of the publish command run for the k-th crate.
OutputFor(k, out) == [crate |-> k, code |-> out.code, text |-> out.text]

Uppers == <<"A", "B", "C", "D", "E", "F", "G", "H", "I", "J", "K", "L", "M",
            "N", "O", "P", "Q", "R", "S", "T", "U", "V", "W", "X", "Y", "Z">>

Lowers == <<"a", "b", "c", "d", "e", "f", "g", "h", "i", "j", "k", "l", "m",
            "n", "o", "p", "q", "r", "s", "t", "u", "v", "w", "x", "y", "z">>

LowerChar(c) ==
    IF \E i \in 1..Len(Uppers) : Uppers[i] = c
    THEN Lowers[CHOOSE i \in 1..Len(Uppers) : Uppers[i] = c]
    ELSE c

\* str.lower()
Lower(t) == [i \in 1..Len(t) |-> LowerChar(t[i])]

\* needle in t
Contains(t, needle) ==
    \E i \in 0..(Len(t) - Len(needle)) :
        \A j \in 1..Len(needle) : t[i + j] = needle[j]

AlreadyUploaded == <<"a", "l", "r", "e", "a", "d", "y", " ", "u", "p", "l", "o", "a", "d", "e", "d">>

\* publish-hanzo-improved.py:  if success
ImprovedClassify(out) == out.code = 0

\* publish-hanzo-automated.py, publish-all-hanzo-crates.py:
\*   if success or 'already uploaded' in output.lower()
LenientClassify(out) ==
    out.code = 0 \/ Contains(Lower(out.text), AlreadyUploaded)

\* ------------------------------------------------------------- the state

VARIABLES
    script,     \* which orchestrator script is running
    token,      \* CARGO_REGISTRY_TOKEN: "unset", "empty" or "set"
    pc,         \* where main / publish_crate stands
    idx,        \* position of the for loop in HANZO_CRATES
    orig,       \* each crate's Cargo.toml as it was when the run started
    disk,       \* each crate's Cargo.toml now
    backup,     \* each crate's Cargo.toml.bak / .backup (NoFile when none)
    fixed,      \* automated: fixed_content, computed but not yet written
    registry,   \* automated: PUBLISHED_HANZO, updated as the run goes
    succeeded,  \* the report's published list
    failed,     \* the report's failed list
    skipped,    \* the report's skipped list (publish-all only)
    returned,   \* what publish_crate returned for each crate
    lastOut,    \* what the last cargo publish handed back
    exc,        \* improved: an exception is propagating out of the try block
    exitCode,   \* the process exit status, -1 while running
    log,        \* the file and command operations so far, in order
    rs, rin, rreg, rout, rpc   \* the resolver on its own (see SpecResolve)

runVars ==
    <<script, token, pc, idx, orig, disk, backup, fixed, registry, succeeded,
      failed, skipped, returned, lastOut, exc, exitCode, log>>

resVars == <<rs, rin, rreg, rout, rpc>>

vars == <<runVars, resVars>>

NoFile ==
    [text |-> "absent", name |-> W1(""), package |-> NoPackage,
     workspace |-> FALSE, deps |-> EmptyMap, dotted |-> EmptyMap]

Ev(c, e) == [crate |-> c, ev |-> e]

\* The Cargo.toml of the k-th crate of script s: a workspace member that
\* inherits its version, edition and authors, depends on the crate before
\* it in the order and on serde by inheritance, and pins thiserror.
MemberManifest(s, k) ==
    LET sibling == ReplaceHyphen(HANZO_CRATES(s)[IF k > 1 THEN k - 1 ELSE 1])
        own == (<<"dependencies", W1("serde")>> :> InheritedDep(FALSE, <<>>, FALSE))
               @@ (<<"dependencies", W1("thiserror")>> :> StrDep("1.0.86"))
        ds == IF k > 1
              THEN (<<"dependencies", sibling>> :> InheritedDep(FALSE, <<>>, FALSE)) @@ own
              ELSE own
    IN  Manifest(ReplaceHyphen(HANZO_CRATES(s)[k]),
                 [f \in MetaFields |->
                     IF f \in {"version", "edition", "authors"} THEN Inherited
                     ELSE IF f = "license" THEN Value("MIT")
                     ELSE Absent],
                 FALSE, ds, EmptyMap)

Init ==
    /\ script \in Scripts
    /\ token \in {"unset", "empty", "set"}
    /\ pc = "start"
    /\ idx = 1
    /\ orig \in [Crates -> {"member", "malformed"}]
    /\ disk = [k \in Crates |-> IF orig[k] = "member"
                                 THEN MemberManifest(script, k)
                                 ELSE MalformedContent]
    /\ backup = [k \in Crates |-> NoFile]
    /\ fixed = NoFile
    /\ registry = PUBLISHED_HANZO
    /\ succeeded = <<>>
    /\ failed = <<>>
    /\ skipped = <<>>
    /\ returned = [k \in Crates |-> "none"]
    /\ lastOut = NoOutput
    /\ exc = FALSE
    /\ exitCode = -1
    /\ log = <<>>
    /\ rs = "none" /\ rin = NoFile /\ rreg = PUBLISHED_HANZO
    /\ rout = NoFile /\ rpc = "off"

\* The content the run started from.
Original(k) ==
    IF orig[k] = "member" THEN MemberManifest(script, k) ELSE MalformedContent

Crate == HANZO_CRATES(script)[idx]

IsLast == Crate = HANZO_CRATES(script)[Len(HANZO_CRATES(script))]

\* ---------------------------------------------------------------- main

\* What a write of the manifest can do: succeed, fail before the file is
\* opened (the old content stays), or fail after open(path, 'w') has
\* truncated it.
WriteOutcomes == {"ok", "open fails", "write fails"}

\* The operator's answer at the prompt of publish-all-hanzo-crates.py.
Responses == {<<"y">>, <<"Y">>, <<"n">>}

Continue(response) == Lower(response) = <<"y">>

\* Mutant of TokenPresent: the credential check is dropped.
TokenPresentUnchecked == TRUE

\* if not os.environ.get('CARGO_REGISTRY_TOKEN'): sys.exit(1)
TokenPresent == token = "set"

\* succeeded / skipped as main initialises them.
InitialSucceeded ==
    IF script = "automated"
    THEN << Us(<<"hanzo", "message", "primitives">>),
            Us(<<"hanzo", "non", "rust", "code">>),
            Us(<<"hanzo", "crypto", "identities">>),
            Us(<<"hanzo", "tools", "runner">>) >>
    ELSE <<>>

InitialSkipped ==
    IF script = "all" THEN << Hy(<<"hanzo", "message", "primitives">>) >> ELSE <<>>

CheckToken ==
    /\ pc = "start"
    /\ IF TokenPresent
       THEN /\ pc' = "loop"
            /\ exitCode' = exitCode
            /\ succeeded' = InitialSucceeded
            /\ skipped' = InitialSkipped
       ELSE /\ pc' = "aborted"
            /\ exitCode' = 1
            /\ UNCHANGED <<succeeded, skipped>>
    /\ UNCHANGED <<script, token, idx, orig, disk, backup, fixed, registry,
                   failed, returned, lastOut, exc, log, resVars>>

\* main after publish_crate returned True: record it (improved and
\* publish-all append to their list, automated's list was taken from the
\* registry before the loop), then sleep unless this is the last crate.
AfterTrue ==
    /\ succeeded' = IF script = "automated" THEN succeeded
                    ELSE Append(succeeded, Crate)
    /\ failed' = failed
    /\ pc' = IF IsLast THEN "loop" ELSE "sleep"
    /\ idx' = IF IsLast THEN idx + 1 ELSE idx

\* main after publish_crate returned False: record the failure and go on;
\* publish-all asks first and leaves the loop unless the answer is y.
AfterFalse(response) ==
    /\ failed' = Append(failed, Crate)
    /\ succeeded' = succeeded
    /\ IF script = "all" /\ ~Continue(response)
       THEN pc' = "summary" /\ idx' = idx
       ELSE pc' = "loop" /\ idx' = idx + 1

Returns(v) == returned' = [returned EXCEPT ![idx] = v]

AnswerSet == IF script = "all" THEN Responses ELSE {<<"y">>}

\* The head of the for loop, up to the first file operation.
LoopDone ==
    /\ pc = "loop" /\ idx > NumCrates
    /\ pc' = "summary"
    /\ UNCHANGED <<script, token, idx, orig, disk, backup, fixed, registry,
                   succeeded, failed, skipped, returned, lastOut, exc,
                   exitCode, log, resVars>>

\* publish-all: if crate_name == "hanzo-message-primitives": continue
AllSkip ==
    /\ pc = "loop" /\ idx <= NumCrates /\ script = "all"
    /\ Crate = Hy(<<"hanzo", "message", "primitives">>)
    /\ idx' = idx + 1
    /\ returned' = [returned EXCEPT ![idx] = "skipped"]
    /\ log' = Append(log, Ev(idx, "skip"))
    /\ UNCHANGED <<script, token, pc, orig, disk, backup, fixed, registry,
                   succeeded, failed, skipped, lastOut, exc, exitCode, resVars>>

Skips == script = "all" /\ Crate = Hy(<<"hanzo", "message", "primitives">>)

\* Mutant of DirMissing: the missing directory is reported and the crate
\* is processed all the same.
DirMissingIgnored ==
    /\ pc = "loop" /\ idx <= NumCrates /\ ~Skips
    /\ log' = log \o <<Ev(idx, "begin"), Ev(idx, "not found")>>
    /\ pc' = IF script = "improved" THEN "backup"
             ELSE IF script = "automated" THEN "resolve"
             ELSE "fix"
    /\ lastOut' = NoOutput
    /\ UNCHANGED <<script, token, idx, orig, disk, backup, fixed, registry,
                   succeeded, failed, skipped, returned, exc, exitCode,
                   resVars>>

\* if not os.path.exists(crate_path): the crate fails without any file or
\* command operation (improved checks in main, the others in publish_crate).
DirMissing ==
    /\ pc = "loop" /\ idx <= NumCrates /\ ~Skips
    /\ log' = log \o <<Ev(idx, "begin"), Ev(idx, "not found")>>
    /\ returned' = IF script = "improved" THEN returned
                   ELSE [returned EXCEPT ![idx] = "false"]
    /\ \E response \in AnswerSet : AfterFalse(response)
    /\ UNCHANGED <<script, token, orig, disk, backup, fixed, registry,
                   skipped, lastOut, exc, exitCode, resVars>>

DirFound ==
    /\ pc = "loop" /\ idx <= NumCrates /\ ~Skips
    /\ log' = Append(log, Ev(idx, "begin"))
    /\ pc' = IF script = "improved" THEN "backup"
             ELSE IF script = "automated" THEN "resolve"
             ELSE "fix"
    /\ lastOut' = NoOutput
    /\ UNCHANGED <<script, token, idx, orig, disk, backup, fixed, registry,
                   succeeded, failed, skipped, returned, exc, exitCode,
                   resVars>>

\* ------------------------------- publish-hanzo-improved.py: publish_crate

\* Mutant of ImprovedBackup: the result of cp is not looked at.
ImprovedBackupUnchecked ==
    /\ pc = "backup" /\ script = "improved"
    /\ \/ /\ backup' = [backup EXCEPT ![idx] = disk[idx]]
          /\ log' = Append(log, Ev(idx, "backup"))
       \/ /\ log' = Append(log, Ev(idx, "backup failed"))
          /\ UNCHANGED backup
    /\ pc' = "fix"
    /\ UNCHANGED <<idx, succeeded, failed, returned>>
    /\ UNCHANGED <<script, token, orig, disk, fixed, registry, skipped,
                   lastOut, exc, exitCode, resVars>>

\* cp Cargo.toml Cargo.toml.bak; on failure publish_crate returns False.
ImprovedBackup ==
    /\ pc = "backup" /\ script = "improved"
    /\ \/ /\ backup' = [backup EXCEPT ![idx] = disk[idx]]
          /\ log' = Append(log, Ev(idx, "backup"))
          /\ pc' = "fix"
          /\ UNCHANGED <<idx, succeeded, failed, returned>>
       \/ /\ log' = Append(log, Ev(idx, "backup failed"))
          /\ Returns("false")
          /\ AfterFalse(<<"y">>)
          /\ UNCHANGED backup
    /\ UNCHANGED <<script, token, orig, disk, fixed, registry, skipped,
                   lastOut, exc, exitCode, resVars>>

\* fix_workspace_inheritance inside the try block: toml.loads raises on
\* malformed content; the write back can fail.
ImprovedFixStep ==
    /\ pc = "fix" /\ script = "improved"
    /\ IF disk[idx].text # "toml"
       THEN /\ exc' = TRUE
            /\ pc' = "restore"
            /\ log' = Append(log, Ev(idx, "parse error"))
            /\ disk' = disk
       ELSE \E w \in WriteOutcomes :
            /\ disk' = [disk EXCEPT ![idx] =
                          IF w = "ok" THEN fix_workspace_inheritance(@)
                          ELSE IF w = "write fails" THEN TruncatedContent
                          ELSE @]
            /\ exc' = (w # "ok")
            /\ pc' = IF w = "ok" THEN "publish" ELSE "restore"
            /\ log' = Append(log, Ev(idx, IF w = "ok" THEN "write" ELSE "write error"))
    /\ UNCHANGED <<script, token, idx, orig, backup, fixed, registry,
                   succeeded, failed, skipped, returned, lastOut, exitCode,
                   resVars>>

\* run_command("cd ... && cargo publish --allow-dirty 2>&1")
ImprovedPublish ==
    /\ pc = "publish" /\ script = "improved"
    /\ \E out \in CargoOutputs : lastOut' = OutputFor(idx, out)
    /\ log' = Append(log, Ev(idx, "publish"))
    /\ pc' = "restore"
    /\ UNCHANGED <<script, token, idx, orig, disk, backup, fixed, registry,
                   succeeded, failed, skipped, returned, exc, exitCode,
                   resVars>>

\* Mutant of ImprovedRestore: the mv is logged but moves nothing.
ImprovedRestoreMovesNothing ==
    /\ pc = "restore" /\ script = "improved"
    /\ UNCHANGED <<disk, backup>>
    /\ log' = Append(log, Ev(idx, "restore"))
    /\ IF exc
       THEN /\ pc' = "crashed"
            /\ exitCode' = 1
            /\ Returns("raised")
            /\ UNCHANGED <<idx, succeeded, failed>>
       ELSE /\ exitCode' = exitCode
            /\ IF ImprovedClassify(lastOut)
               THEN Returns("true") /\ AfterTrue
               ELSE Returns("false") /\ AfterFalse(<<"y">>)
    /\ UNCHANGED <<script, token, orig, fixed, registry, skipped, lastOut,
                   exc, resVars>>

\* The finally block (mv Cargo.toml.bak Cargo.toml), then either the
\* exception leaves main uncaught or publish_crate returns and main records
\* the result.
ImprovedRestore ==
    /\ pc = "restore" /\ script = "improved"
    /\ disk' = [disk EXCEPT ![idx] = backup[idx]]
    /\ backup' = [backup EXCEPT ![idx] = NoFile]
    /\ log' = Append(log, Ev(idx, "restore"))
    /\ IF exc
       THEN /\ pc' = "crashed"
            /\ exitCode' = 1
            /\ Returns("raised")
            /\ UNCHANGED <<idx, succeeded, failed>>
       ELSE /\ exitCode' = exitCode
            /\ IF ImprovedClassify(lastOut)
               THEN Returns("true") /\ AfterTrue
               ELSE Returns("false") /\ AfterFalse(<<"y">>)
    /\ UNCHANGED <<script, token, orig, fixed, registry, skipped, lastOut,
                   exc, resVars>>

\* time.sleep(10)
Sleep ==
    /\ pc = "sleep"
    /\ log' = Append(log, Ev(idx, "sleep"))
    /\ idx' = idx + 1
    /\ pc' = "loop"
    /\ UNCHANGED <<script, token, orig, disk, backup, fixed, registry,
                   succeeded, failed, skipped, returned, lastOut, exc,
                   exitCode, resVars>>

\* Mutant of Summary: the exit status is computed the wrong way round.
SummaryInverted ==
    /\ pc = "summary"
    /\ exitCode' = IF failed = <<>> THEN 1 ELSE 0
    /\ pc' = "done"
    /\ UNCHANGED <<script, token, idx, orig, disk, backup, fixed, registry,
                   succeeded, failed, skipped, returned, lastOut, exc, log,
                   resVars>>

\* The summary and sys.exit(0 if not failed else 1)
Summary ==
    /\ pc = "summary"
    /\ exitCode' = IF failed = <<>> THEN 0 ELSE 1
    /\ pc' = "done"
    /\ UNCHANGED <<script, token, idx, orig, disk, backup, fixed, registry,
                   succeeded, failed, skipped, returned, lastOut, exc, log,
                   resVars>>

\* ------------------------------ publish-hanzo-automated.py: publish_crate

\* fixed_content = create_fixed_cargo_toml(...): reads the manifest (the
\* read can raise) and resolves it against the registry as it is now.
AutomatedResolve ==
    /\ pc = "resolve" /\ script = "automated"
    /\ \/ /\ fixed' = create_fixed_cargo_toml(disk[idx], Crate, registry)
          /\ log' = Append(log, Ev(idx, "resolve"))
          /\ pc' = "backup"
          /\ UNCHANGED <<idx, succeeded, failed, returned>>
       \/ /\ log' = Append(log, Ev(idx, "read error"))
          /\ Returns("false")
          /\ AfterFalse(<<"y">>)
          /\ UNCHANGED fixed
    /\ UNCHANGED <<script, token, orig, disk, backup, registry, skipped,
                   lastOut, exc, exitCode, resVars>>

\* subprocess.run('cp ...', check=True): a failure raises and is caught by
\* the except, which returns False.
AutomatedBackup ==
    /\ pc = "backup" /\ script = "automated"
    /\ \/ /\ backup' = [backup EXCEPT ![idx] = disk[idx]]
          /\ log' = Append(log, Ev(idx, "backup"))
          /\ pc' = "write"
          /\ UNCHANGED <<idx, succeeded, failed, returned, fixed>>
       \/ /\ log' = Append(log, Ev(idx, "backup failed"))
          /\ Returns("false")
          /\ AfterFalse(<<"y">>)
          /\ fixed' = NoFile
          /\ UNCHANGED backup
    /\ UNCHANGED <<script, token, orig, disk, registry, skipped, lastOut,
                   exc, exitCode, resVars>>

\* with open(cargo_toml, 'w') as f: f.write(fixed_content): an error here
\* is caught by the same except, which returns False; the backup stays
\* where it is and nothing moves it back.
AutomatedWrite ==
    /\ pc = "write" /\ script = "automated"
    /\ \E w \in WriteOutcomes :
          /\ disk' = [disk EXCEPT ![idx] =
                        IF w = "ok" THEN fixed
                        ELSE IF w = "write fails" THEN TruncatedContent
                        ELSE @]
          /\ log' = Append(log, Ev(idx, IF w = "ok" THEN "write" ELSE "write error"))
          /\ IF w = "ok"
             THEN pc' = "publish" /\ UNCHANGED <<idx, succeeded, failed, returned>>
             ELSE Returns("false") /\ AfterFalse(<<"y">>)
    /\ fixed' = NoFile
    /\ UNCHANGED <<script, token, orig, backup, registry, skipped, lastOut,
                   exc, exitCode, resVars>>

\* run_cmd('cargo publish --allow-dirty', cwd=crate_path)
AutomatedPublish ==
    /\ pc = "publish" /\ script = "automated"
    /\ \E out \in CargoOutputs : lastOut' = OutputFor(idx, out)
    /\ log' = Append(log, Ev(idx, "publish"))
    /\ pc' = "restore"
    /\ UNCHANGED <<script, token, idx, orig, disk, backup, fixed, registry,
                   succeeded, failed, skipped, returned, exc, exitCode,
                   resVars>>

\* Mutant of AddPublished: the published crate is not recorded.
AddPublishedLost(reg, crate_name) == reg

\* PUBLISHED_HANZO[crate_name.replace('-', '_')] = '1.1.10'
AddPublished(reg, crate_name) ==
    [k \in DOMAIN reg \cup {ReplaceHyphen(crate_name)} |->
        IF k = ReplaceHyphen(crate_name) THEN "1.1.10" ELSE reg[k]]

\* Mutant of AutomatedRestore: the crate is recorded in the registry
\* whatever the classification.
AutomatedRestoreAddsAlways ==
    /\ pc = "restore" /\ script = "automated"
    /\ disk' = [disk EXCEPT ![idx] = backup[idx]]
    /\ backup' = [backup EXCEPT ![idx] = NoFile]
    /\ log' = Append(log, Ev(idx, "restore"))
    /\ IF LenientClassify(lastOut)
       THEN /\ registry' = AddPublished(registry, Crate)
            /\ Returns("true")
            /\ AfterTrue
       ELSE /\ registry' = AddPublished(registry, Crate)
            /\ Returns("false")
            /\ AfterFalse(<<"y">>)
    /\ UNCHANGED <<script, token, orig, fixed, skipped, lastOut, exc,
                   exitCode, resVars>>

\* mv Cargo.toml.backup Cargo.toml, then the classification of the result,
\* the registry update and the return to main.
AutomatedRestore ==
    /\ pc = "restore" /\ script = "automated"
    /\ disk' = [disk EXCEPT ![idx] = backup[idx]]
    /\ backup' = [backup EXCEPT ![idx] = NoFile]
    /\ log' = Append(log, Ev(idx, "restore"))
    /\ IF LenientClassify(lastOut)
       THEN /\ registry' = AddPublished(registry, Crate)
            /\ Returns("true")
            /\ AfterTrue
       ELSE /\ registry' = registry
            /\ Returns("false")
            /\ AfterFalse(<<"y">>)
    /\ UNCHANGED <<script, token, orig, fixed, skipped, lastOut, exc,
                   exitCode, resVars>>

\* ----------------------------- publish-all-hanzo-crates.py: publish_crate

\* fix_cargo_toml(crate_path): rewrites the manifest in place when a fix
\* applies; there is no backup.  A failing write raises out of main.
AllFix ==
    /\ pc = "fix" /\ script = "all"
    /\ IF all_fix_cargo_toml(disk[idx]) = disk[idx]
       THEN /\ pc' = "publish"
            /\ log' = Append(log, Ev(idx, "no fix"))
            /\ UNCHANGED <<disk, exitCode, returned>>
       ELSE \E w \in WriteOutcomes :
            /\ disk' = [disk EXCEPT ![idx] =
                          IF w = "ok" THEN all_fix_cargo_toml(@)
                          ELSE IF w = "write fails" THEN TruncatedContent
                          ELSE @]
            /\ log' = Append(log, Ev(idx, IF w = "ok" THEN "write" ELSE "write error"))
            /\ pc' = IF w = "ok" THEN "publish" ELSE "crashed"
            /\ exitCode' = IF w = "ok" THEN exitCode ELSE 1
            /\ returned' = IF w = "ok" THEN returned
                           ELSE [returned EXCEPT ![idx] = "raised"]
    /\ UNCHANGED <<script, token, idx, orig, backup, fixed, registry,
                   succeeded, failed, skipped, lastOut, exc, resVars>>

\* run_command("cargo publish --allow-dirty", cwd=crate_path), the
\* classification and the return to main, which prompts after a failure.
AllPublish ==
    /\ pc = "publish" /\ script = "all"
    /\ log' = Append(log, Ev(idx, "publish"))
    /\ \E out \in CargoOutputs :
          /\ lastOut' = OutputFor(idx, out)
          /\ IF LenientClassify(out)
             THEN Returns("true") /\ AfterTrue
             ELSE Returns("false") /\ \E response \in Responses : AfterFalse(response)
    /\ UNCHANGED <<script, token, orig, disk, backup, fixed, registry,
                   skipped, exc, exitCode, resVars>>

Next ==
    \/ CheckToken
    \/ LoopDone
    \/ AllSkip
    \/ DirMissing
    \/ DirFound
    \/ ImprovedBackup
    \/ ImprovedFixStep
    \/ ImprovedPublish
    \/ ImprovedRestore
    \/ AutomatedResolve
    \/ AutomatedBackup
    \/ AutomatedWrite
    \/ AutomatedPublish
    \/ AutomatedRestore
    \/ AllFix
    \/ AllPublish
    \/ Sleep
    \/ Summary

Spec == Init /\ [][Next]_vars

\* ------------------------------------------------ the resolver on its own

\* The resolvers: fix_workspace_inheritance (improved),
\* create_fixed_cargo_toml (automated), fix_cargo_toml (fixall).
Resolvers == {"improved", "automated", "fixall"}

\* At most MaxDeps dependency entries in a manifest handed to a resolver.
MaxDeps == 2

DepKeys ==
    { <<"dependencies", W1("serde")>>,
      <<"dependencies", W1("chrono")>>,
      <<"build-dependencies", W1("chrono")>>,
      <<"dev-dependencies", W1("reqwest")>>,
      <<"dependencies", W1("log")>>,
      <<"dependencies", Us(<<"hanzo", "pqc">>)>>,
      <<"dependencies", Us(<<"hanzo", "message", "primitives">>)>>,
      <<"dependencies", Us(<<"hanzo", "embedding">>)>>,
      <<"dev-dependencies", W1("thiserror")>>,
      <<"build-dependencies", W1("foo")>> }

DepForms ==
    { InheritedDep(FALSE, <<>>, FALSE),
      InheritedDep(TRUE, <<"std">>, FALSE),
      InheritedDep(FALSE, <<>>, TRUE),
      StrDep("0.9"),
      StrDep(""),
      TableDep("0.9", <<"std">>),
      VersionOnlyDep("0.9") }

\* The registry a resolver can be handed: improved has none, fixall has its
\* own fixed one, automated's is the seed or the seed plus crates published
\* earlier in the run.
Registries(r) ==
    IF r = "automated"
    THEN {PUBLISHED_HANZO, AddPublished(PUBLISHED_HANZO, Hy(<<"hanzo", "pqc">>))}
    ELSE IF r = "fixall" THEN {FIXALL_PUBLISHED_HANZO}
    ELSE {[k \in {} |-> ""]}

\* The package of the manifests whose dependencies vary: a workspace member
\* inheriting version, edition and authors.
MemberPackage ==
    [f \in MetaFields |->
        IF f \in {"version", "edition", "authors"} THEN Inherited
        ELSE IF f = "license" THEN Value("MIT")
        ELSE Absent]

\* A value of its own for each package field, none of them a default.
OwnValues ==
    [ version     |-> "0.3.0",
      edition     |-> "2018",
      authors     |-> "Jane Doe",
      license     |-> "Apache-2.0",
      repository  |-> "https://example.org/repo",
      homepage    |-> "https://example.org",
      description |-> "A crate of its own" ]

\* The ways of writing one package field: absent, inherited or explicit,
\* and the description also as the empty string.
FieldForms(f) ==
    {Absent, Inherited, Value(OwnValues[f])}
        \cup (IF f = "description" THEN {Value("")} ELSE {})

\* Every way of writing the seven package fields.
PackageForms ==
    { [ version |-> v, edition |-> e, authors |-> a, license |-> l,
        repository |-> r, homepage |-> h, description |-> d ] :
        v \in FieldForms("version"), e \in FieldForms("edition"),
        a \in FieldForms("authors"), l \in FieldForms("license"),
        r \in FieldForms("repository"), h \in FieldForms("homepage"),
        d \in FieldForms("description") }

\* The dependencies of the manifests whose package varies.
MemberDeps ==
    (<<"dependencies", W1("serde")>> :> InheritedDep(FALSE, <<>>, FALSE))
    @@ (<<"dependencies", W1("thiserror")>> :> StrDep("1.0.86"))

\* A member package with every choice of at most MaxDeps dependency
\* entries.
DepManifests ==
    { Manifest(Us(<<"hanzo", "db">>), MemberPackage, FALSE, ds, EmptyMap) :
        ds \in UNION { [keys -> DepForms] :
                         keys \in {K \in SUBSET DepKeys : Cardinality(K) <= MaxDeps} } }

\* Every package form, with and without a [workspace] table, over the
\* member dependencies.
PackageManifests ==
    { Manifest(Us(<<"hanzo", "db">>), p, w, MemberDeps, EmptyMap) :
        p \in PackageForms, w \in BOOLEAN }

\* The forms of a dependency written as a table of its own.
TableForms ==
    { InheritedDep(FALSE, <<>>, FALSE),
      InheritedDep(TRUE, <<"std">>, FALSE),
      TableDep("0.9", <<"std">>),
      VersionOnlyDep("0.9") }

\* A member package with one dependency written under a top-level key
\* "section.name" of its own, beside at most one entry in the sections:
\* the keys fix_dependencies_table_syntax looks for.
DottedManifests ==
    { Manifest(Us(<<"hanzo", "db">>), MemberPackage, FALSE, ds, dk :> e) :
        dk \in DepKeys, e \in TableForms,
        ds \in {EmptyMap, <<"dependencies", W1("anyhow")>> :> StrDep("1.0")} }

\* The manifests handed to a resolver.
InputManifests == DepManifests \cup PackageManifests \cup DottedManifests

\* What resolver r writes for content m, with registry reg.
Resolve(r, m, reg) ==
    IF r = "improved" THEN fix_workspace_inheritance(m)
    ELSE IF r = "automated" THEN create_fixed_cargo_toml(m, Hy(<<"hanzo", "db">>), reg)
    ELSE fixall_fix_cargo_toml(m)

InitResolve ==
    /\ script = "none" /\ token = "unset" /\ pc = "off" /\ idx = 1
    /\ orig = [k \in Crates |-> "member"]
    /\ disk = [k \in Crates |-> NoFile]
    /\ backup = [k \in Crates |-> NoFile]
    /\ fixed = NoFile /\ registry = PUBLISHED_HANZO
    /\ succeeded = <<>> /\ failed = <<>> /\ skipped = <<>>
    /\ returned = [k \in Crates |-> "none"]
    /\ lastOut = NoOutput /\ exc = FALSE /\ exitCode = -1 /\ log = <<>>
    /\ rs \in Resolvers
    /\ (rin \in DepManifests \/ rin \in PackageManifests
        \/ rin \in DottedManifests)
    /\ rreg \in Registries(rs)
    /\ rout = NoFile
    /\ rpc = "input"

ResolveStep ==
    /\ rpc = "input"
    /\ rout' = Resolve(rs, rin, rreg)
    /\ rpc' = "resolved"
    /\ UNCHANGED <<rs, rin, rreg, runVars>>

\* The resolver run a second time, on what it wrote the first time, with
\* the same registry.
ResolveAgain ==
    /\ rpc = "resolved"
    /\ rout' = Resolve(rs, rout, rreg)
    /\ rpc' = "resolved again"
    /\ UNCHANGED <<rs, rin, rreg, runVars>>

NextResolve == ResolveStep \/ ResolveAgain

SpecResolve == InitResolve /\ [][NextResolve]_vars

\* ---------------------------------------------------------- properties

\* The crates whose manifest on disk is not what the run started from.
Differ == {k \in Crates : disk[k] # Original(k)}

\* publish_crate was called for crate k and has returned or raised.
Ended(k) == returned[k] \in {"true", "false", "raised"}

\* The crates whose loop body has started, in the order it started.
Begun ==
    LET begins == SelectSeq(log, LAMBDA e : e.ev = "begin")
    IN  [i \in 1..Len(begins) |-> begins[i].crate]

\* The final report: the skipped, succeeded and failed lists.
Report == skipped \o succeeded \o failed

Count(seq, x) == Cardinality({i \in 1..Len(seq) : seq[i] = x})

\* The inherited dependency of the k-th crate on the crate before it.
SiblingKey(k) == <<"dependencies", ReplaceHyphen(HANZO_CRATES(script)[k - 1])>>

\* C1 (as claimed): in the scripts that back the manifest up, whenever
\* publish_crate has finished with a crate, whatever the outcome, that
\* crate's manifest on disk is identical to what it was when the run began.
C1_RestoredOnEveryExit ==
    BacksUp(script) => \A k \in Crates : Ended(k) => disk[k] = Original(k)

\* C2 (as claimed): in every state of a run of any of the three scripts at
\* most one manifest differs from its original, and at a package boundary
\* none does.
C2_AtMostOneMutated ==
    /\ Cardinality(Differ) <= 1
    /\ pc \in {"loop", "sleep", "summary", "done"} => Differ = {}

\* C3 (as claimed): packages are attempted strictly in the supplied order
\* and every complete run attempts each of the n packages, whatever failed.
C3_AllAttemptedInOrder ==
    /\ \A i \in 1..Len(Begun) : Begun[i] = i
    /\ pc = "done" => Begun = [k \in 1..NumCrates |-> k]

\* C4 (as claimed): when a run that passed the credential check ends, every
\* package of the order is in the report exactly once, the report lists
\* nothing else, and a package published in the run is listed as succeeded.
C4_ReportComplete ==
    pc = "done" =>
        /\ \A k \in Crates : Count(Report, HANZO_CRATES(script)[k]) = 1
        /\ \A i \in 1..Len(Report) :
              \E k \in Crates : Report[i] = HANZO_CRATES(script)[k]
        /\ \A k \in Crates :
              returned[k] = "true" => Has(succeeded, HANZO_CRATES(script)[k])

\* C5 (as claimed): whenever the process has exited, the exit status is
\* non-zero if and only if some package was recorded as failed.
C5_ExitIffFailed ==
    exitCode # -1 => (exitCode # 0 <=> failed # <<>>)

\* C5 (amended): the exit status is zero exactly when the run reached the
\* summary with no package recorded as failed; a run that reached the
\* summary exits non-zero if and only if some package failed, and a run
\* that stopped on the missing credential or on an uncaught error exits
\* non-zero whether or not a package was recorded as failed.
C5_ExitIffFailedAtSummary ==
    /\ pc \in {"done", "aborted", "crashed"} <=> exitCode # -1
    /\ exitCode # -1 => (exitCode = 0 <=> (pc = "done" /\ failed = <<>>))
    /\ pc = "done" => (exitCode # 0 <=> failed # <<>>)
    /\ pc \in {"aborted", "crashed"} => exitCode = 1

\* A run that reached the summary with a failed package and exited 1.
C5_Witness == pc = "done" /\ failed # <<>> /\ exitCode = 1

\* C6: with the credential absent (or empty) the run goes from the start
\* straight to the abort: no file or command operation happens, every
\* manifest is as it was, no backup exists, nothing is resolved and the
\* registry is as seeded.
C6_NoCredentialNoWork ==
    token # "set" =>
        /\ pc \in {"start", "aborted"}
        /\ log = <<>>
        /\ Differ = {}
        /\ \A k \in Crates : backup[k] = NoFile /\ returned[k] = "none"
        /\ fixed = NoFile
        /\ lastOut = NoOutput
        /\ registry = PUBLISHED_HANZO
        /\ succeeded = <<>> /\ failed = <<>>

\* The run has aborted on the missing credential.
C6_Witness == token = "unset" /\ pc = "aborted" /\ exitCode = 1

\* C7 (as claimed): publish_crate reports success exactly when the publish
\* command exited zero or its output contains "already uploaded" in any
\* letter case.
C7_ClassifiedLeniently ==
    (lastOut.crate \in Crates /\ returned[lastOut.crate] \in {"true", "false"})
        => (returned[lastOut.crate] = "true" <=> LenientClassify(lastOut))

VersionTable(r) ==
    IF r = "improved" THEN DEPENDENCY_VERSIONS
    ELSE IF r = "automated" THEN WORKSPACE_DEPS
    ELSE DEPS

PriorityVersion(r, dep_name, reg) ==
    IF ReplaceHyphen(dep_name) \in DOMAIN reg THEN reg[ReplaceHyphen(dep_name)]
    ELSE IF dep_name \in DOMAIN VersionTable(r) THEN VersionTable(r)[dep_name]
    ELSE "1.0"

\* C9 (as claimed): every inherited dependency is resolved to the
\* registry's version if its name is in the registry, else to the table's
\* version, else to the default version marker.
C9_StrictPriority ==
    rpc = "resolved" =>
        \A k \in DOMAIN rin.deps :
            rin.deps[k].ws =>
                /\ k \in DOMAIN rout.deps
                /\ rout.deps[k].ver = PriorityVersion(rs, k[2], rreg)

\* C10 (as claimed): after resolving a manifest with at least one inherited
\* dependency, no dependency entry of any section is still inherited and
\* every entry carries a concrete version.
C10_AllExplicit ==
    (rpc = "resolved" /\ \E k \in DOMAIN rin.deps : rin.deps[k].ws) =>
        \A k \in DOMAIN rout.deps :
            /\ ~rout.deps[k].ws
            /\ rout.deps[k].ver \notin {NoVer, ""}

\* The features each resolver holds mandatory for a dependency name:
\* improved names them in its code, automated and fixall in a table.
IMPROVED_FEATURES ==
    W1("chrono") :> <<"serde">>
    @@ W1("reqwest") :> <<"json">>
    @@ W1("nalgebra") :> <<"serde-serialize">>

RequiredFeatures(r) ==
    IF r = "improved" THEN IMPROVED_FEATURES
    ELSE IF r = "automated" THEN CRYPTO_FEATURES
    ELSE FEATURES

\* Entry e declares every feature of the list fs.
DeclaresAll(e, fs) ==
    \A i \in 1..Len(fs) : e.hasFeat /\ Has(e.feats, fs[i])

\* C11 (as claimed): after resolution every dependency whose name has
\* mandatory features declares all of them, in every section and whatever
\* form it was written in before.
C11_MandatoryFeatures ==
    rpc = "resolved" =>
        \A k \in DOMAIN rout.deps :
            k[2] \in DOMAIN RequiredFeatures(rs) =>
                DeclaresAll(rout.deps[k], RequiredFeatures(rs)[k[2]])

\* C12 (as claimed): every feature a dependency declared before resolution
\* is still declared by it after resolution.
C12_FeaturesPreserved ==
    rpc = "resolved" =>
        \A k \in DOMAIN rin.deps :
            rin.deps[k].hasFeat =>
                /\ k \in DOMAIN rout.deps
                /\ DeclaresAll(rout.deps[k], rin.deps[k].feats)

\* A name the resolver finds neither in its version table nor among the
\* published siblings (for improved, which keeps no registry, the hanzo_
\* names).
NotFound(r, dep_name, reg) ==
    /\ dep_name \notin DOMAIN VersionTable(r)
    /\ ReplaceHyphen(dep_name) \notin DOMAIN reg
    /\ ~(r = "improved" /\ StartsWithHanzoUnderscore(dep_name))

\* A declaration whatever notation it is written in.
Declared(e) == [e EXCEPT !.nested = FALSE]

\* C13 (as claimed): a dependency whose name is not found is declared
\* after resolution exactly as before, and no version is invented for it.
C13_UnknownUntouched ==
    rpc = "resolved" =>
        \A k \in DOMAIN rin.deps :
            NotFound(rs, k[2], rreg) =>
                /\ k \in DOMAIN rout.deps
                /\ Declared(rout.deps[k]) = Declared(rin.deps[k])

\* A package field holding a value, the empty string not counting as one.
Concrete(fv) == fv.st = "explicit" /\ fv.v # <<Raw("")>>

\* C14 (as claimed): after the metadata pass every one of the seven package
\* fields is explicit, and a field that was inherited or absent holds its
\* workspace default (the description, when it was absent, a value).
C14_MetadataExplicit ==
    rpc = "resolved" =>
        \A f \in MetaFields :
            /\ rout.package[f].st = "explicit"
            /\ (f # "description" /\ rin.package[f].st \in {"absent", "inherited"})
                   => rout.package[f] = Value(WORKSPACE_DEFAULTS[f])

\* The descriptions derived from the package name hanzo-db / hanzo_db.
DerivedDescriptions ==
    { SynthDescription(Hy(<<"hanzo", "db">>), "-"),
      SynthDescription(Us(<<"hanzo", "db">>), "_") }

\* C15 (as claimed): after resolution the description is neither absent
\* nor empty, and when the manifest had none it is the one derived from the
\* package name.
C15_DescriptionDerived ==
    rpc = "resolved" =>
        /\ Concrete(rout.package["description"])
        /\ rin.package["description"].st = "absent"
              => rout.package["description"] \in DerivedDescriptions

C17_Standalone ==
    rpc = "resolved" => rout.workspace

\* C18: resolution is idempotent: run again on what it wrote, with the same
\* registry, a resolver writes exactly the same manifest.
C18_Idempotent ==
    [][(rpc = "resolved" /\ rpc' = "resolved again") => rout' = rout]_vars

\* A manifest resolved twice whose first resolution rewrote both a package
\* field and a dependency.
C18_Witness ==
    /\ rpc = "resolved again"
    /\ rout.package # rin.package
    /\ \E k \in DOMAIN rin.deps : rin.deps[k].ws /\ ~rout.deps[k].ws

\* The operation e was logged for crate k.
HasEv(k, e) == \E i \in 1..Len(log) : log[i] = Ev(k, e)

\* C19 (as claimed): an error on one package's manifest (it cannot be read
\* or does not parse) never ends the run: the error does not leave
\* publish_crate, and once publish_crate is over the package is recorded as
\* failed.
C19_ManifestErrorIsFailed ==
    \A k \in Crates :
        (HasEv(k, "parse error") \/ HasEv(k, "read error")) =>
            /\ returned[k] # "raised"
            /\ Ended(k) => /\ returned[k] = "false"
                            /\ Has(failed, HANZO_CRATES(script)[k])
                            /\ pc # "crashed"

\* C20: when the backup of a package's manifest fails, the manifest is not
\* written, no publish command is run and no restore is attempted for that
\* package, the package is recorded as failed, and the loop goes on to the
\* next package: a run that reaches its end has begun every later package.
C20_BackupFailureSkipsPackage ==
    \A k \in Crates :
        HasEv(k, "backup failed") =>
            /\ ~HasEv(k, "write") /\ ~HasEv(k, "write error")
            /\ ~HasEv(k, "publish") /\ ~HasEv(k, "restore")
            /\ disk[k] = Original(k)
            /\ backup[k] = NoFile
            /\ returned[k] = "false"
            /\ Count(failed, HANZO_CRATES(script)[k]) = 1
            /\ idx > k
            /\ pc = "done" => \A j \in Crates : j > k => HasEv(j, "begin")

\* A run that ended after the backup of its first package failed and its
\* second package was published.
C20_Witness ==
    /\ pc = "done"
    /\ HasEv(1, "backup failed")
    /\ HasEv(2, "publish") /\ returned[2] = "true"

\* The operation e1 on crate k1 was logged before the operation e2 on crate
\* k2.
Before(k1, e1, k2, e2) ==
    \E i, j \in 1..Len(log) :
        i < j /\ log[i] = Ev(k1, e1) /\ log[j] = Ev(k2, e2)

\* C21 (as claimed): the settle delay follows a package exactly when its
\* publish was success-equivalent (exit 0 or "already uploaded") and the
\* package is not the last; it never follows a failed package, and it is
\* over before the next package is begun.
C21_SettleDelay ==
    /\ pc = "sleep" =>
          /\ lastOut.crate = idx /\ LenientClassify(lastOut)
          /\ idx < NumCrates
    /\ \A k \in Crates :
          /\ HasEv(k, "sleep") => (returned[k] = "true" /\ k < NumCrates)
          /\ (lastOut.crate = k /\ LenientClassify(lastOut) /\ Ended(k)
                /\ k < NumCrates)
                 => ((pc = "sleep" /\ idx = k) \/ HasEv(k, "sleep"))
          /\ (k < NumCrates /\ returned[k] = "true" /\ HasEv(k + 1, "begin"))
                 => Before(k, "sleep", k + 1, "begin")

\* C22: backup followed by restore is a round trip: once the backup of a
\* package's manifest has been moved back, the manifest is what it was when
\* the backup was taken, whatever was written to it in between (the fixed
\* manifest, a truncated one, or nothing), and the backup file is gone.
C22_BackupRestoreRoundTrip ==
    \A k \in Crates :
        (HasEv(k, "backup") /\ HasEv(k, "restore")) =>
            /\ Before(k, "backup", k, "restore")
            /\ disk[k] = Original(k)
            /\ backup[k] = NoFile

\* A manifest restored after the resolver rewrote it, and another restored
\* after a write that left it truncated.
C22_Witness ==
    \E k, j \in Crates :
        /\ HasEv(k, "backup") /\ HasEv(k, "write") /\ HasEv(k, "restore")
        /\ orig[k] = "member"
        /\ Resolve(script, Original(k), registry) # Original(k)
        /\ HasEv(j, "backup") /\ HasEv(j, "write error") /\ HasEv(j, "restore")

\* C23 (as claimed): every package goes through backup, write of the
\* resolved manifest, publish and restore in that order: its manifest is
\* not written before its backup was taken, the publish command is not run
\* before the manifest was written, and a restore that follows a publish
\* command comes after it.
C23_StateOrder ==
    \A k \in Crates :
        /\ (HasEv(k, "write") \/ HasEv(k, "write error"))
              => (Before(k, "backup", k, "write")
                  \/ Before(k, "backup", k, "write error"))
        /\ HasEv(k, "publish") => Before(k, "write", k, "publish")
        /\ (HasEv(k, "publish") /\ HasEv(k, "restore"))
              => Before(k, "publish", k, "restore")
        /\ HasEv(k, "restore") => Before(k, "backup", k, "restore")

\* The same manifest with every dependency written as an inline entry of
\* its section: a [section.name] table and a top-level "section.name" key
\* both become  name = { ... }  under [section].
Flat(m) ==
    [m EXCEPT
        !.deps = [k \in DOMAIN m.deps \cup DOMAIN m.dotted |->
                     IF k \in DOMAIN m.dotted
                     THEN Declared(m.dotted[k])
                     ELSE Declared(m.deps[k])],
        !.dotted = EmptyMap]

\* C24 (as claimed): a manifest whose dependencies are written in the
\* nested section.name notation resolves to the same manifest as the one
\* with the same dependencies written as inline tables.
C24_NotationsEquivalent ==
    rpc = "resolved" => Flat(rout) = Flat(Resolve(rs, Flat(rin), rreg))

\* The names under which the crates of the whole publish order of
\* publish-hanzo-automated.py are recorded in the registry.
AutomatedKeys ==
    {ReplaceHyphen(AUTOMATED_CRATES[i]) : i \in 1..Len(AUTOMATED_CRATES)}

\* Every entry of the registry is a seeded one or that of a crate of this
\* run whose publish command was run and classified success-equivalent.
RegistryJustified ==
    /\ \A n \in DOMAIN PUBLISHED_HANZO :
          n \in DOMAIN registry /\ registry[n] = PUBLISHED_HANZO[n]
    /\ \A n \in DOMAIN registry \ DOMAIN PUBLISHED_HANZO :
          \E k \in Crates :
              /\ n = ReplaceHyphen(HANZO_CRATES(script)[k])
              /\ HasEv(k, "publish") /\ returned[k] = "true"
    /\ \A k \in Crates :
          (returned[k] = "false"
             /\ ReplaceHyphen(HANZO_CRATES(script)[k]) \notin DOMAIN PUBLISHED_HANZO)
              => ReplaceHyphen(HANZO_CRATES(script)[k]) \notin DOMAIN registry
    /\ AutomatedKeys \cap DOMAIN PUBLISHED_HANZO = {}

\* No step removes an entry or changes its version.
RegistryGrows ==
    \A n \in DOMAIN registry :
        n \in DOMAIN registry' /\ registry'[n] = registry[n]

\* C25: the already-published registry only grows during a run: no entry
\* is ever removed or given another version, and an entry is added only
\* for a crate whose publish was classified success-equivalent, so a crate
\* that failed and was not seeded is never in it.
C25_RegistryOnlyGrows == [][RegistryGrows]_vars /\ []RegistryJustified

\* A run of publish-hanzo-automated.py in which the first crate's publish
\* failed and the second crate's succeeded and was added to the registry.
C25_Witness ==
    /\ script = "automated"
    /\ HasEv(1, "publish") /\ returned[1] = "false"
    /\ returned[2] = "true"
    /\ ReplaceHyphen(HANZO_CRATES(script)[2]) \in DOMAIN registry
    /\ ReplaceHyphen(HANZO_CRATES(script)[1]) \notin DOMAIN registry

\* C26: the publish command is run at most once for each package of the
\* order, only for packages of the order, and never for a package whose
\* directory was not found.
C26_PublishAtMostOnce ==
    \A i \in 1..Len(log) :
        log[i].ev = "publish" =>
            /\ log[i].crate \in Crates
            /\ ~HasEv(log[i].crate, "not found")
            /\ \A j \in 1..Len(log) : log[j] = log[i] => j = i

\* A run that ended after one package's publish had failed, another's
\* directory was missing and a later one was published.
C26_Witness ==
    /\ pc = "done"
    /\ \E k, m, n \in Crates :
          /\ HasEv(k, "publish") /\ returned[k] = "false"
          /\ HasEv(m, "not found")
          /\ n > k /\ HasEv(n, "publish")

====
